---- MODULE Spec2Model ----
(***************************************************************************)
(* State-machine model of the SpendGuard SDK scripts:                      *)
(*   - skills/.../bootstrap_strict_budget.py   (prog = "bootstrap")        *)
(*   - examples/generate_spendguard_openai_traffic.py (prog = "traffic")   *)
(*   - examples/reconcile_spendguard_billing.py (prog = "reconcile")       *)
(* The guard service, the ledger database and the CSV exports are the      *)
(* environment: every HTTP response, database row and CSV row is a         *)
(* nondeterministic input drawn from a small set.                          *)
(***************************************************************************)
EXTENDS Integers, Sequences, FiniteSets, TLC

\* ------------------------------------------------------------------ bounds
\* Largest cents figure given on a command line.
MaxCents == 2
\* Largest request count (--n) given on a command line.
MaxN == 2
\* Most ledger rows the window query returns.
MaxLedgerRows == 2
\* Most data rows in one provider CSV export.
MaxCsvRows == 2

\* ------------------------------------------------------- program constants
\* generate_spendguard_openai_traffic.py argparse defaults.
DefaultN == 1
DefaultMaxOutputTokens == 128
DefaultHardLimitCents == 500
DefaultTopupCents == 500

VARIABLES
    prog,       \* which script runs
    cli,        \* the raw command line (input)
    pc,         \* position in main()
    args,       \* the parsed argparse namespace
    topup,      \* bootstrap main(): local `topup`
    agent_id,   \* main(): local `agent_id`
    run,        \* bootstrap main(): local `run` (the run response, or None)
    run_id,     \* traffic main(): local `run_id`
    i,          \* traffic main(): loop variable `i`
    sent,       \* every HTTP request issued so far, in order
    got,        \* the outcome of each request (same index as sent)
    events,     \* order of clock reads, requests, sleeps and prints
    exit_code,  \* -1 while running, else the process exit code
    err,        \* the exception that ended the process (NoErr if none)
    \* reconcile_spendguard_billing.py
    store,          \* the sqlite ledger: whether it opens/queries, its rows in the window
    csv,            \* the provider CSV exports named on the command line
    conn,           \* _load_sqlite_ledger: state of `conn`
    cursor,         \* _load_sqlite_ledger: the rows cur.fetchall() returned
    pos,            \* _load_sqlite_ledger: index of the next fetched row
    out,            \* _load_sqlite_ledger: local `out`
    ledger_rows,    \* main(): `ledger_rows`
    ledger_sums,    \* main(): `ledger_sums`
    provider_sums,  \* main(): `provider_sums`
    report          \* main(): the rows printed after the header

provVars == <<cli, args, topup, agent_id, run, run_id, i, sent, got, events>>

reconVars == <<store, csv, conn, cursor, pos, out, ledger_rows, ledger_sums,
               provider_sums, report>>

vars == <<prog, pc, exit_code, err, provVars, reconVars>>

\* --------------------------------------------------------- JSON values
\* A JSON value read from a response field (dict.get): missing/null (None),
\* a string, or a number.
NoVal == [t |-> "none", s |-> "", n |-> 0]
StrVal(x) == [t |-> "str", s |-> x, n |-> 0]
IntVal(k) == [t |-> "int", s |-> "", n |-> k]

\* Python truthiness of a JSON value (`if not agent_id`).
Truthy(v) ==
    \/ v.t = "str" /\ v.s # ""
    \/ v.t = "int" /\ v.n # 0

\* `isinstance(agent_id, str) and agent_id`
IsNonEmptyStr(v) == v.t = "str" /\ v.s # ""

\* --------------------------------------------------------- HTTP outcomes
\* What urlopen + read + json.loads can produce for one request:
\*   urlerror  - urllib.error.URLError (transport failure)
\*   timeout   - socket timeout raised while reading the body
\*   httperror - urllib.error.HTTPError (non-2xx)
\*   empty     - 2xx with an empty body
\*   badjson   - 2xx whose body is not JSON
\*   nonobject - 2xx whose body is JSON but not an object
\*   object    - 2xx JSON object; val is the field the caller reads from it
Resp(k, v) == [kind |-> k, val |-> v]

FailKinds == {"urlerror", "timeout", "httperror", "badjson"}

ErrorResponses == {Resp(k, NoVal) : k \in FailKinds}

NonDictResponses == {Resp("empty", NoVal), Resp("nonobject", NoVal)}

ObjectResponses(vals) == {Resp("object", v) : v \in vals}

HealthResponses ==
    ErrorResponses \cup NonDictResponses
        \cup ObjectResponses({NoVal, StrVal("ok"), StrVal("degraded"), IntVal(1)})

AgentResponses ==
    ErrorResponses \cup NonDictResponses
        \cup ObjectResponses({NoVal, StrVal(""), StrVal("a1"), IntVal(0), IntVal(7)})

BudgetResponses ==
    ErrorResponses \cup NonDictResponses \cup ObjectResponses({NoVal})

RunResponses ==
    ErrorResponses \cup NonDictResponses
        \cup ObjectResponses({NoVal, StrVal(""), StrVal("r1"), StrVal("r2"), IntVal(7)})

MeteredResponses ==
    ErrorResponses \cup {Resp("empty", NoVal)} \cup ObjectResponses({NoVal})

\* --------------------------------------------------------- requests
Req(method, ep, agent, rid, limit, tup, seq, effort) ==
    [method |-> method, ep |-> ep, agent |-> agent, run |-> rid,
     hard_limit_cents |-> limit, topup_cents |-> tup, seq |-> seq,
     effort |-> effort]

\* bootstrap _request_json: the exception it raises for a response, "" if it
\* returns.
RequestJsonError(r) ==
    CASE r.kind = "httperror" -> "RuntimeError"
      [] r.kind = "urlerror" -> "RuntimeError"
      [] r.kind = "timeout" -> "TimeoutError"
      [] r.kind = "badjson" -> "JSONDecodeError"
      [] r.kind = "nonobject" -> "RuntimeError"
      [] OTHER -> ""

\* bootstrap _request_json: the value of field `f` of the returned dict
\* (`{}` for an empty body), as dict.get gives it.
RequestJsonGet(r) == IF r.kind = "object" THEN r.val ELSE NoVal

\* Variant of HttpJsonError that swallows HTTPError: a non-2xx response is
\* returned as None instead of being raised.
HttpJsonErrorSwallowed(r) ==
    CASE r.kind = "urlerror" -> "URLError"
      [] r.kind = "timeout" -> "TimeoutError"
      [] r.kind = "badjson" -> "JSONDecodeError"
      [] OTHER -> ""

\* traffic _http_json: the exception it raises for a response, "" if it
\* returns (only HTTPError is caught and rethrown as RuntimeError).
HttpJsonError(r) ==
    CASE r.kind = "httperror" -> "RuntimeError"
      [] r.kind = "urlerror" -> "URLError"
      [] r.kind = "timeout" -> "TimeoutError"
      [] r.kind = "badjson" -> "JSONDecodeError"
      [] OTHER -> ""

\* traffic main(): `x.get(f) if isinstance(x, dict) else None`
HttpJsonGet(r) == IF r.kind = "object" THEN r.val ELSE NoVal

\* --------------------------------------------------------- command lines
\* One command-line option as argparse sees it: absent, or present with a
\* text that int() accepts (isint, n) or rejects.
OptAbsent == [given |-> FALSE, isint |-> TRUE, n |-> 0]
OptInt(k) == [given |-> TRUE, isint |-> TRUE, n |-> k]
OptJunk == [given |-> TRUE, isint |-> FALSE, n |-> 0]

CentsOpts == {OptAbsent, OptJunk} \cup {OptInt(k) : k \in -1..MaxCents}
CountOpts == {OptAbsent, OptJunk} \cup {OptInt(k) : k \in -1..MaxN}
TokenOpts == {OptAbsent, OptInt(0)}

\* cli.limit / cli.topup are --limit / --topup of the bootstrap script and
\* --hard-limit-cents / --topup-cents of the traffic generator.
CommandLines(p) ==
    [limit : CentsOpts, topup : CentsOpts,
     n : IF p = "traffic" THEN CountOpts ELSE {OptAbsent},
     max_output_tokens : IF p = "traffic" THEN TokenOpts ELSE {OptAbsent},
     sleep_positive : IF p = "traffic" THEN BOOLEAN ELSE {FALSE},
     reasoning_effort : IF p = "traffic" THEN {"", "low"} ELSE {""},
     skip_health_check : IF p = "bootstrap" THEN BOOLEAN ELSE {FALSE},
     create_run : IF p = "bootstrap" THEN BOOLEAN ELSE {FALSE},
     json : IF p = "bootstrap" THEN BOOLEAN ELSE {FALSE}]

NoArgs == [limit |-> 0, topup |-> 0, topup_given |-> FALSE, n |-> 0,
           max_output_tokens |-> 0]
NoErr == [exc |-> "", at |-> ""]
Err(exc, at) == [exc |-> exc, at |-> at]

\* argparse: the value of an option, or its default when absent.
OptValue(opt, default) == IF opt.given THEN opt.n ELSE default

\* Variant of _parse_positive_int that tests `parsed < 0`: zero passes.
ParseNonNegativeInt(opt) == opt.isint /\ opt.n >= 0

\* bootstrap _parse_positive_int: TRUE when it returns, FALSE when it raises
\* ArgumentTypeError.
_parse_positive_int(opt) == opt.isint /\ opt.n > 0

\* The process ends: SystemExit with `code`, after exception `e`.
Exit(code, e) ==
    /\ pc' = IF code = 0 THEN "done" ELSE "failed"
    /\ exit_code' = code
    /\ err' = e

\* One blocking HTTP round trip: the request goes out, outcome r comes back.
Issue(req, r) ==
    /\ sent' = Append(sent, req)
    /\ got' = Append(got, r)
    /\ events' = Append(events, "req")

\* ------------------------------------------- bootstrap_strict_budget.py
\* Variant of BParseArgs whose top-up does not fall back to the limit: an
\* absent --topup is taken as 0.
BParseArgsTopupZero ==
    /\ prog = "bootstrap" /\ pc = "parse"
    /\ IF /\ cli.limit.given
          /\ _parse_positive_int(cli.limit)
          /\ (cli.topup.given => _parse_positive_int(cli.topup))
       THEN /\ args' = [NoArgs EXCEPT !.limit = cli.limit.n,
                                      !.topup = cli.topup.n,
                                      !.topup_given = cli.topup.given]
            /\ topup' = cli.topup.n
            /\ pc' = IF cli.skip_health_check THEN "agent" ELSE "health"
            /\ UNCHANGED <<exit_code, err>>
       ELSE /\ Exit(2, Err("ArgumentError", "parse"))
            /\ UNCHANGED <<args, topup>>
    /\ UNCHANGED <<reconVars, prog, cli, agent_id, run, run_id, i, sent, got, events>>

\* main() lines 107-110: parse_args (argparse exits 2 on a missing --limit
\* or a value its type function rejects), then the top-up default.
BParseArgs ==
    /\ prog = "bootstrap" /\ pc = "parse"
    /\ IF /\ cli.limit.given
          /\ _parse_positive_int(cli.limit)
          /\ (cli.topup.given => _parse_positive_int(cli.topup))
       THEN /\ args' = [NoArgs EXCEPT !.limit = cli.limit.n,
                                      !.topup = cli.topup.n,
                                      !.topup_given = cli.topup.given]
            /\ topup' = IF cli.topup.given THEN cli.topup.n ELSE cli.limit.n
            /\ pc' = IF cli.skip_health_check THEN "agent" ELSE "health"
            /\ UNCHANGED <<exit_code, err>>
       ELSE /\ Exit(2, Err("ArgumentError", "parse"))
            /\ UNCHANGED <<args, topup>>
    /\ UNCHANGED <<reconVars, prog, cli, agent_id, run, run_id, i, sent, got, events>>

\* Variant of HealthOk that fails only on a status text other than "ok": a
\* response without a status text passes.
HealthOkUnlessStatus(r) ==
    RequestJsonGet(r).t # "str" \/ RequestJsonGet(r) = StrVal("ok")

\* main() line 118: `health.get("status") != "ok"` is the failure test.
HealthOk(r) == RequestJsonGet(r) = StrVal("ok")

\* main() lines 112-119.
BHealth ==
    /\ prog = "bootstrap" /\ pc = "health"
    /\ \E r \in HealthResponses :
        /\ Issue(Req("GET", "health", NoVal, NoVal, 0, 0, 0, ""), r)
        /\ IF RequestJsonError(r) # ""
           THEN Exit(1, Err(RequestJsonError(r), "health"))
           ELSE IF ~HealthOk(r)
           THEN Exit(1, Err("RuntimeError", "health"))
           ELSE pc' = "agent" /\ UNCHANGED <<exit_code, err>>
    /\ UNCHANGED <<reconVars, prog, cli, args, topup, agent_id, run, run_id, i>>

\* Variant of BAgentIdOk without the check of line 128.
BAgentIdUnchecked(v) == TRUE

\* main() line 128: the agent_id the bootstrap script accepts.
BAgentIdOk(v) == IsNonEmptyStr(v)

\* main() lines 121-129.
BCreateAgent ==
    /\ prog = "bootstrap" /\ pc = "agent"
    /\ \E r \in AgentResponses :
        /\ Issue(Req("POST", "agents", NoVal, NoVal, 0, 0, 0, ""), r)
        /\ IF RequestJsonError(r) # ""
           THEN Exit(1, Err(RequestJsonError(r), "agents")) /\ UNCHANGED agent_id
           ELSE IF ~BAgentIdOk(RequestJsonGet(r))
           THEN Exit(1, Err("RuntimeError", "agents")) /\ UNCHANGED agent_id
           ELSE /\ agent_id' = RequestJsonGet(r)
                /\ pc' = "budget"
                /\ UNCHANGED <<exit_code, err>>
    /\ UNCHANGED <<reconVars, prog, cli, args, topup, run, run_id, i>>

\* main() lines 131-136.
BSetBudget ==
    /\ prog = "bootstrap" /\ pc = "budget"
    /\ \E r \in BudgetResponses :
        /\ Issue(Req("POST", "budget", agent_id, NoVal, args.limit, topup, 0, ""), r)
        /\ IF RequestJsonError(r) # ""
           THEN Exit(1, Err(RequestJsonError(r), "budget"))
           ELSE /\ pc' = IF cli.create_run THEN "run" ELSE "output"
                /\ UNCHANGED <<exit_code, err>>
    /\ UNCHANGED <<reconVars, prog, cli, args, topup, agent_id, run, run_id, i>>

\* main() lines 138-145: the run response is stored as is.
BCreateRun ==
    /\ prog = "bootstrap" /\ pc = "run"
    /\ \E r \in RunResponses :
        /\ Issue(Req("POST", "runs", agent_id, NoVal, 0, 0, 0, ""), r)
        /\ IF RequestJsonError(r) # ""
           THEN Exit(1, Err(RequestJsonError(r), "runs")) /\ UNCHANGED run
           ELSE /\ run' = r
                /\ pc' = "output"
                /\ UNCHANGED <<exit_code, err>>
    /\ UNCHANGED <<reconVars, prog, cli, args, topup, agent_id, run_id, i>>

\* main() lines 147-164: print the result and return 0.
BOutput ==
    /\ prog = "bootstrap" /\ pc = "output"
    /\ events' = Append(events, "print")
    /\ Exit(0, NoErr)
    /\ UNCHANGED <<reconVars, prog, cli, args, topup, agent_id, run, run_id, i, sent, got>>

\* ------------------------------- generate_spendguard_openai_traffic.py
\* main() lines 37-54: argparse with type=int options and their defaults.
TParseArgs ==
    /\ prog = "traffic" /\ pc = "parse"
    /\ IF \A o \in {cli.n, cli.max_output_tokens, cli.limit, cli.topup} : o.isint
       THEN /\ args' = [limit |-> OptValue(cli.limit, DefaultHardLimitCents),
                        topup |-> OptValue(cli.topup, DefaultTopupCents),
                        topup_given |-> cli.topup.given,
                        n |-> OptValue(cli.n, DefaultN),
                        max_output_tokens |->
                            OptValue(cli.max_output_tokens, DefaultMaxOutputTokens)]
            /\ pc' = "validate"
            /\ UNCHANGED <<exit_code, err>>
       ELSE /\ Exit(2, Err("ArgumentError", "parse"))
            /\ UNCHANGED args
    /\ UNCHANGED <<reconVars, prog, cli, topup, agent_id, run, run_id, i, sent, got, events>>

\* Variant of ArgsError without the --topup-cents check of lines 63-64.
ArgsErrorNoTopupCheck(a) ==
    CASE a.n <= 0 -> "--n must be > 0"
      [] a.max_output_tokens <= 0 -> "--max-output-tokens must be > 0"
      [] a.limit <= 0 -> "--hard-limit-cents must be > 0"
      [] OTHER -> ""

\* main() lines 57-64: the first failing check, "" when all pass.
ArgsError(a) ==
    CASE a.n <= 0 -> "--n must be > 0"
      [] a.max_output_tokens <= 0 -> "--max-output-tokens must be > 0"
      [] a.limit <= 0 -> "--hard-limit-cents must be > 0"
      [] a.topup < 0 -> "--topup-cents must be >= 0"
      [] OTHER -> ""

\* main() lines 56-64.
TValidate ==
    /\ prog = "traffic" /\ pc = "validate"
    /\ IF ArgsError(args) # ""
       THEN Exit(1, Err("SystemExit", "validate"))
       ELSE pc' = "start" /\ UNCHANGED <<exit_code, err>>
    /\ UNCHANGED <<reconVars, prog, cli, args, topup, agent_id, run, run_id, i, sent, got, events>>

\* Variant of TStart that does not read the clock before provisioning.
TStartDeferred ==
    /\ prog = "traffic" /\ pc = "start"
    /\ pc' = "agent"
    /\ UNCHANGED <<reconVars, prog, cli, args, topup, agent_id, run, run_id, i, sent, got,
                   events, exit_code, err>>

\* main() line 66: start = _utc_now_iso().
TStart ==
    /\ prog = "traffic" /\ pc = "start"
    /\ events' = Append(events, "start")
    /\ pc' = "agent"
    /\ UNCHANGED <<reconVars, prog, cli, args, topup, agent_id, run, run_id, i, sent, got,
                   exit_code, err>>

\* Variant of TIdOk without the checks of lines 70 and 82.
TIdUnchecked(v) == TRUE

\* main() lines 70 and 82: `if not agent_id` / `if not run_id`.
TIdOk(v) == Truthy(v)

\* main() lines 68-71.
TCreateAgent ==
    /\ prog = "traffic" /\ pc = "agent"
    /\ \E r \in AgentResponses :
        /\ Issue(Req("POST", "agents", NoVal, NoVal, 0, 0, 0, ""), r)
        /\ IF HttpJsonError(r) # ""
           THEN Exit(1, Err(HttpJsonError(r), "agents")) /\ UNCHANGED agent_id
           ELSE IF ~TIdOk(HttpJsonGet(r))
           THEN Exit(1, Err("RuntimeError", "agents")) /\ UNCHANGED agent_id
           ELSE /\ agent_id' = HttpJsonGet(r)
                /\ pc' = "budget"
                /\ UNCHANGED <<exit_code, err>>
    /\ UNCHANGED <<reconVars, prog, cli, args, topup, run, run_id, i>>

\* Variant of LoopNext with an inclusive upper bound (range(n + 1)).
LoopNextInclusive(k) == IF k <= args.n THEN "run" ELSE "end"

\* main() line 79: `for i in range(int(args.n))` - where control goes when
\* the loop variable would next be k.
LoopNext(k) == IF k < args.n THEN "run" ELSE "end"

\* main() lines 73-77 and the loop entry of line 79.
TSetBudget ==
    /\ prog = "traffic" /\ pc = "budget"
    /\ \E r \in BudgetResponses :
        /\ Issue(Req("POST", "budget", agent_id, NoVal, args.limit, args.topup, 0, ""), r)
        /\ IF HttpJsonError(r) # ""
           THEN Exit(1, Err(HttpJsonError(r), "budget")) /\ UNCHANGED i
           ELSE /\ i' = 0
                /\ pc' = LoopNext(0)
                /\ UNCHANGED <<exit_code, err>>
    /\ UNCHANGED <<reconVars, prog, cli, args, topup, agent_id, run, run_id>>

\* Variant of TCreateRun that keeps the run_id of the first run for the
\* whole loop (`run_id = run_id or run.get("run_id")`).
TCreateRunKeepsFirst ==
    /\ prog = "traffic" /\ pc = "run"
    /\ \E r \in RunResponses :
        /\ Issue(Req("POST", "runs", agent_id, NoVal, 0, 0, 0, ""), r)
        /\ IF HttpJsonError(r) # ""
           THEN Exit(1, Err(HttpJsonError(r), "runs")) /\ UNCHANGED run_id
           ELSE IF ~TIdOk(HttpJsonGet(r))
           THEN Exit(1, Err("RuntimeError", "runs")) /\ UNCHANGED run_id
           ELSE /\ run_id' = IF run_id = NoVal THEN HttpJsonGet(r) ELSE run_id
                /\ pc' = "metered"
                /\ UNCHANGED <<exit_code, err>>
    /\ UNCHANGED <<reconVars, prog, cli, args, topup, agent_id, run, i>>

\* main() lines 80-83.
TCreateRun ==
    /\ prog = "traffic" /\ pc = "run"
    /\ \E r \in RunResponses :
        /\ Issue(Req("POST", "runs", agent_id, NoVal, 0, 0, 0, ""), r)
        /\ IF HttpJsonError(r) # ""
           THEN Exit(1, Err(HttpJsonError(r), "runs")) /\ UNCHANGED run_id
           ELSE IF ~TIdOk(HttpJsonGet(r))
           THEN Exit(1, Err("RuntimeError", "runs")) /\ UNCHANGED run_id
           ELSE /\ run_id' = HttpJsonGet(r)
                /\ pc' = "metered"
                /\ UNCHANGED <<exit_code, err>>
    /\ UNCHANGED <<reconVars, prog, cli, args, topup, agent_id, run, i>>

\* main() lines 85-102: build the prompt (request number i+1) and payload,
\* post it, sleep when --sleep-seconds > 0, and go to the next iteration.
TMetered ==
    /\ prog = "traffic" /\ pc = "metered"
    /\ \E r \in MeteredResponses :
        /\ sent' = Append(sent, Req("POST", "responses", agent_id, run_id, 0, 0,
                                    i + 1, cli.reasoning_effort))
        /\ got' = Append(got, r)
        /\ IF HttpJsonError(r) # ""
           THEN /\ Exit(1, Err(HttpJsonError(r), "responses"))
                /\ events' = Append(events, "req")
                /\ UNCHANGED i
           ELSE /\ events' = IF cli.sleep_positive
                             THEN events \o <<"req", "sleep">>
                             ELSE Append(events, "req")
                /\ i' = i + 1
                /\ pc' = LoopNext(i + 1)
                /\ UNCHANGED <<exit_code, err>>
    /\ UNCHANGED <<reconVars, prog, cli, args, topup, agent_id, run, run_id>>

\* main() lines 104-117: end = _utc_now_iso(), print the window, return 0.
TFinish ==
    /\ prog = "traffic" /\ pc = "end"
    /\ events' = events \o <<"end", "print">>
    /\ Exit(0, NoErr)
    /\ UNCHANGED <<reconVars, prog, cli, args, topup, agent_id, run, run_id, i, sent, got>>

\* ------------------------------------- reconcile_spendguard_billing.py
\* Python values as the code meets them. A dict is modelled by what .get()
\* returns for the one key the code reads from it (None when the key is
\* missing or null).
JNone == [t |-> "none"]
JInt(n) == [t |-> "int", n |-> n]
JStr(x) == [t |-> "str", s |-> x]
\* A non-integral float whose truncation toward zero is n.
JFloat(n) == [t |-> "float", trunc |-> n]
JList(len) == [t |-> "list", len |-> len]
JObj(c) == [t |-> "obj", child |-> c]
JBytes == [t |-> "bytes"]
\* A text json.loads rejects.
JInvalid == [t |-> "invalid"]
\* An exception propagating out of an expression.
JRaise == [t |-> "raise"]

\* Python truthiness, for `x or default`.
PyFalsy(x) ==
    \/ x.t = "none"
    \/ x.t = "int" /\ x.n = 0
    \/ x.t = "str" /\ x.s = ""
    \/ x.t = "list" /\ x.len = 0

\* `x or {}`
PyOrEmptyDict(x) == IF PyFalsy(x) THEN JObj(JNone) ELSE x

\* `x or 0`
PyOrZero(x) == IF PyFalsy(x) THEN JInt(0) ELSE x

\* `x.get(key)`: AttributeError unless x is a dict.
PyGet(x) == IF x.t = "obj" THEN x.child ELSE JRaise

\* int() of a numeral text.
PyIntOfText(x) ==
    CASE x = "2" -> JInt(2)
      [] x = "-1" -> JInt(-1)
      [] OTHER -> JRaise

\* `int(x)`: ValueError for a non-numeral text, TypeError for None, lists,
\* dicts and bytes-likes that are no numeral.
PyInt(x) ==
    CASE x.t = "int" -> x
      [] x.t = "float" -> JInt(x.trunc)
      [] x.t = "str" -> PyIntOfText(x.s)
      [] OTHER -> JRaise

\* A meta_json column value: SQL NULL, a BLOB, or TEXT (loads is what
\* json.loads makes of the text).
MetaNull == [sql |-> "null", loads |-> JNone]
MetaBlob == [sql |-> "blob", loads |-> JNone]
MetaText(j) == [sql |-> "text", loads |-> j]
\* {"billing_breakdown": {"totals": {"realized_microcents": v}}}
MetaWith(v) == MetaText(JObj(JObj(JObj(v))))

\* _load_sqlite_ledger line 45.
MetaLoad(col) ==
    CASE col.sql = "text" -> IF col.loads.t = "invalid" THEN JRaise ELSE col.loads
      [] col.sql = "null" -> JObj(JNone)
      [] OTHER -> JBytes

\* _load_sqlite_ledger lines 45-48: the value the try block computes, JRaise
\* when one of its statements raises.
TryMicrocents(col) ==
    LET meta == MetaLoad(col)
        bb == PyOrEmptyDict(PyGet(meta))
        totals == PyOrEmptyDict(PyGet(bb))
    IN  PyInt(PyOrZero(PyGet(totals)))

\* Variant of RowMicrocents without the except clause: the exception leaves
\* the loop.
RowMicrocentsNoExcept(col) ==
    LET v == TryMicrocents(col)
    IN  IF v.t = "raise" THEN [raised |-> TRUE, n |-> 0]
        ELSE [raised |-> FALSE, n |-> v.n]

\* _load_sqlite_ledger lines 43-50: try/except around the extraction; the
\* handler sets 0 and nothing escapes.
RowMicrocents(col) ==
    LET v == TryMicrocents(col)
    IN  IF v.t = "raise" THEN [raised |-> FALSE, n |-> 0]
        ELSE [raised |-> FALSE, n |-> v.n]

DbRow(p, m, cents, meta) ==
    [provider |-> p, model |-> m, realized_cents |-> cents, meta_json |-> meta]

LedgerRow(p, m, micro, cents) ==
    [provider |-> p, model |-> m, realized_microcents |-> micro,
     realized_cents |-> cents]

\* dicts keyed by (provider, model)
EmptyDict == [x \in {} |-> 0]
DictGet(d, key, default) == IF key \in DOMAIN d THEN d[key] ELSE default
DictSet(d, key, v) ==
    [x \in DOMAIN d \cup {key} |-> IF x = key THEN v ELSE d[x]]
\* dict.update
DictUpdate(d, e) ==
    [x \in DOMAIN d \cup DOMAIN e |-> IF x \in DOMAIN e THEN e[x] ELSE d[x]]

\* Variant of LedgerAccumulate that adds the coarse realized_cents.
LedgerAccumulateCents(sums, r) ==
    DictSet(sums, <<r.provider, r.model>>,
            DictGet(sums, <<r.provider, r.model>>, 0) + r.realized_cents)

\* _sum_microcents_by_provider_model line 69.
LedgerAccumulate(sums, r) ==
    DictSet(sums, <<r.provider, r.model>>,
            DictGet(sums, <<r.provider, r.model>>, 0) + r.realized_microcents)

RECURSIVE SumRowsFrom(_, _, _)
\* _sum_microcents_by_provider_model lines 67-69: the loop from row j on.
SumRowsFrom(rows, j, sums) ==
    IF j > Len(rows) THEN sums
    ELSE SumRowsFrom(rows, j + 1, LedgerAccumulate(sums, rows[j]))

_sum_microcents_by_provider_model(rows) == SumRowsFrom(rows, 1, EmptyDict)

\* str.strip() on the texts of a CSV cell.
Strip(x) ==
    CASE x = " m1" -> "m1"
      [] x = " " -> ""
      [] OTHER -> x

\* float(cost). A float usd is represented by q, the place of the double
\* usd * 100 * 1_000_000 on the quarter-microcent grid: q % 4 = 0 when the
\* product is the integer q/4, 2 when it is exactly q \div 4 + 1/2, 1 or 3
\* when it lies strictly below or above that half. The products are those of
\* IEEE doubles: 5e-09 gives 0.5, 2.5e-08 gives 2.5, 4.5e-08 gives 4.5,
\* 1.5e-08 gives 1.4999999999999998.
PyFloat(x) ==
    CASE x = "0" -> [ok |-> TRUE, q |-> 0]
      [] x = "5e-09" -> [ok |-> TRUE, q |-> 2]
      [] x = "1e-08" -> [ok |-> TRUE, q |-> 4]
      [] x = "1.5e-08" -> [ok |-> TRUE, q |-> 5]
      [] x = "2.5e-08" -> [ok |-> TRUE, q |-> 10]
      [] x = "2.75e-08" -> [ok |-> TRUE, q |-> 11]
      [] x = "4.5e-08" -> [ok |-> TRUE, q |-> 18]
      [] x = "-5e-09" -> [ok |-> TRUE, q |-> -2]
      [] OTHER -> [ok |-> FALSE, q |-> 0]

\* round(): nearest integer, ties to the even one (Python 3 float.__round__).
PyRound(q) ==
    LET f == q \div 4
        r == q % 4
    IN  IF r < 2 THEN f
        ELSE IF r > 2 THEN f + 1
        ELSE IF f % 2 = 0 THEN f ELSE f + 1

\* _usd_to_microcents line 75, on a usd represented by q.
_usd_to_microcents(q) == PyRound(q)

\* Variant of CsvAccumulate that assigns instead of adding.
CsvOverwrite(sums, key, usd) == DictSet(sums, key, _usd_to_microcents(usd))

\* _load_openai_csv line 91 (and lines 107, 123).
CsvAccumulate(sums, key, usd) ==
    DictSet(sums, key, DictGet(sums, key, 0) + _usd_to_microcents(usd))

RECURSIVE LoadCsvFrom(_, _, _, _)
\* _load_openai_csv lines 84-91 (_load_anthropic_csv 100-107,
\* _load_gemini_csv 116-123): the reader loop from row j on. A ValueError
\* from float() leaves the loop and the function.
LoadCsvFrom(tag, rows, j, sums) ==
    IF j > Len(rows) THEN [exc |-> "", sums |-> sums]
    ELSE LET model == Strip(rows[j].model)
             cost == Strip(rows[j].cost)
         IN  IF model = "" \/ cost = ""
             THEN LoadCsvFrom(tag, rows, j + 1, sums)
             ELSE IF ~PyFloat(cost).ok
             THEN [exc |-> "ValueError", sums |-> sums]
             ELSE LoadCsvFrom(tag, rows, j + 1,
                              CsvAccumulate(sums, <<tag, model>>, PyFloat(cost).q))

_load_openai_csv(rows) == LoadCsvFrom("openai", rows, 1, EmptyDict)
\* Variant of _load_anthropic_csv that attaches the provider tag "openai".
LoadAnthropicTaggedOpenai(rows) == LoadCsvFrom("openai", rows, 1, EmptyDict)

_load_anthropic_csv(rows) == LoadCsvFrom("anthropic", rows, 1, EmptyDict)
_load_gemini_csv(rows) == LoadCsvFrom("gemini", rows, 1, EmptyDict)

\* Code points of the provider and model names in use (Python compares str
\* by code point).
Chars(x) ==
    CASE x = "anthropic" -> <<97, 110, 116, 104, 114, 111, 112, 105, 99>>
      [] x = "gemini" -> <<103, 101, 109, 105, 110, 105>>
      [] x = "openai" -> <<111, 112, 101, 110, 97, 105>>
      [] x = "OpenAI" -> <<79, 112, 101, 110, 65, 73>>
      [] x = "m1" -> <<109, 49>>
      [] x = "m10" -> <<109, 49, 48>>
      [] x = "m2" -> <<109, 50>>

\* Lexicographic order of sequences: first difference, else the shorter.
SeqLess(x, y) ==
    \/ \E j \in 1..Len(x) :
        /\ j <= Len(y)
        /\ \A h \in 1..(j - 1) : x[h] = y[h]
        /\ x[j] < y[j]
    \/ /\ Len(x) < Len(y)
       /\ \A h \in 1..Len(x) : x[h] = y[h]

StrLess(a, b) == SeqLess(Chars(a), Chars(b))

\* Python's order on (provider, model) tuples.
KeyLess(a, b) ==
    \/ StrLess(a[1], b[1])
    \/ a[1] = b[1] /\ StrLess(a[2], b[2])

RECURSIVE KeysByModel(_)
\* Variant of SortedKeys that orders by model name alone.
KeysByModel(S) ==
    IF S = {} THEN <<>>
    ELSE LET least == CHOOSE a \in S : \A b \in S \ {a} :
                          StrLess(a[2], b[2]) \/ (a[2] = b[2] /\ ~StrLess(b[1], a[1]))
         IN  <<least>> \o KeysByModel(S \ {least})

RECURSIVE SortedKeys(_)
\* main() line 156: sorted(...) of a set of keys.
SortedKeys(S) ==
    IF S = {} THEN <<>>
    ELSE LET least == CHOOSE a \in S : \A b \in S \ {a} : KeyLess(a, b)
         IN  <<least>> \o SortedKeys(S \ {least})

\* main() lines 162-164: one report row.
ReportRow(key, lsums, psums) ==
    LET l == DictGet(lsums, key, 0)
        pr == DictGet(psums, key, 0)
    IN  [provider |-> key[1], model |-> key[2], ledger |-> l, provider_amount |-> pr,
         diff |-> l - pr]

\* main() lines 156-167: the rows of the report, in print order.
ReportRows(lsums, psums) ==
    LET keys == SortedKeys(DOMAIN lsums \cup DOMAIN psums)
    IN  [j \in 1..Len(keys) |-> ReportRow(keys[j], lsums, psums)]

\* One provider CSV argument: not given, or a file with these data rows
\* (a cell is "" when the column is missing or empty).
NoFile == [given |-> FALSE, rows |-> <<>>]
File(rows) == [given |-> TRUE, rows |-> rows]
CsvRow(m, c) == [model |-> m, cost |-> c]

\* The three scripts share prog, pc, exit_code and err; a script's own
\* variables rest at these values while another script runs.
ReconIdle ==
    /\ store = [status |-> "ok", rows |-> <<>>]
    /\ csv = [openai |-> NoFile, anthropic |-> NoFile, gemini |-> NoFile]
    /\ conn = "none"
    /\ cursor = <<>>
    /\ pos = 1
    /\ out = <<>>
    /\ ledger_rows = <<>>
    /\ ledger_sums = EmptyDict
    /\ provider_sums = EmptyDict
    /\ report = <<>>

ProvIdle ==
    /\ cli = [limit |-> OptAbsent, topup |-> OptAbsent, n |-> OptAbsent,
              max_output_tokens |-> OptAbsent, sleep_positive |-> FALSE,
              reasoning_effort |-> "", skip_health_check |-> FALSE,
              create_run |-> FALSE, json |-> FALSE]
    /\ args = NoArgs
    /\ topup = 0
    /\ agent_id = NoVal
    /\ run = Resp("none", NoVal)
    /\ run_id = NoVal
    /\ i = 0
    /\ sent = <<>>
    /\ got = <<>>
    /\ events = <<>>

\* main() line 145 -> _load_sqlite_ledger line 35: sqlite3.connect.
RConnect ==
    /\ prog = "reconcile" /\ pc = "connect"
    /\ IF store.status = "unopenable"
       THEN Exit(1, Err("OperationalError", "connect")) /\ UNCHANGED conn
       ELSE conn' = "open" /\ pc' = "query" /\ UNCHANGED <<exit_code, err>>
    /\ UNCHANGED <<provVars, prog, store, csv, cursor, pos, out, ledger_rows,
                   ledger_sums, provider_sums, report>>

\* _load_sqlite_ledger lines 37-42: execute and fetchall; a failing query
\* leaves through the finally clause.
RQuery ==
    /\ prog = "reconcile" /\ pc = "query"
    /\ IF store.status = "query_error"
       THEN /\ conn' = "closed"
            /\ Exit(1, Err("OperationalError", "query"))
            /\ UNCHANGED <<cursor, pos, out>>
       ELSE /\ cursor' = store.rows
            /\ pos' = 1
            /\ out' = <<>>
            /\ pc' = "rows"
            /\ UNCHANGED <<conn, exit_code, err>>
    /\ UNCHANGED <<provVars, prog, store, csv, ledger_rows, ledger_sums,
                   provider_sums, report>>

\* Variant of RRow without the finally clause: an exception raised while a
\* row is built leaves the function with the connection still open.
RRowNoFinally ==
    /\ prog = "reconcile" /\ pc = "rows" /\ pos <= Len(cursor)
    /\ LET r == cursor[pos]
           micro == RowMicrocents(r.meta_json)
           cents == PyInt(r.realized_cents)
       IN  IF micro.raised \/ cents.t = "raise"
           THEN /\ Exit(1, Err(IF micro.raised THEN "Exception" ELSE "TypeError", "rows"))
                /\ UNCHANGED <<conn, pos, out>>
           ELSE /\ out' = Append(out, LedgerRow(r.provider, r.model, micro.n, cents.n))
                /\ pos' = pos + 1
                /\ UNCHANGED <<conn, pc, exit_code, err>>
    /\ UNCHANGED <<provVars, prog, store, csv, cursor, ledger_rows, ledger_sums,
                   provider_sums, report>>

\* _load_sqlite_ledger lines 42-59: one iteration of the row loop. int() of
\* realized_cents is outside the try block.
RRow ==
    /\ prog = "reconcile" /\ pc = "rows" /\ pos <= Len(cursor)
    /\ LET r == cursor[pos]
           micro == RowMicrocents(r.meta_json)
           cents == PyInt(r.realized_cents)
       IN  IF micro.raised \/ cents.t = "raise"
           THEN /\ conn' = "closed"
                /\ Exit(1, Err(IF micro.raised THEN "Exception" ELSE "TypeError", "rows"))
                /\ UNCHANGED <<pos, out>>
           ELSE /\ out' = Append(out, LedgerRow(r.provider, r.model, micro.n, cents.n))
                /\ pos' = pos + 1
                /\ UNCHANGED <<conn, pc, exit_code, err>>
    /\ UNCHANGED <<provVars, prog, store, csv, cursor, ledger_rows, ledger_sums,
                   provider_sums, report>>

\* _load_sqlite_ledger lines 60-62 and the assignment of main() line 145.
RReturn ==
    /\ prog = "reconcile" /\ pc = "rows" /\ pos > Len(cursor)
    /\ conn' = "closed"
    /\ ledger_rows' = out
    /\ pc' = "sum"
    /\ UNCHANGED <<provVars, prog, exit_code, err, store, csv, cursor, pos, out,
                   ledger_sums, provider_sums, report>>

\* main() lines 146-148.
RSum ==
    /\ prog = "reconcile" /\ pc = "sum"
    /\ ledger_sums' = _sum_microcents_by_provider_model(ledger_rows)
    /\ provider_sums' = EmptyDict
    /\ pc' = "openai"
    /\ UNCHANGED <<provVars, prog, exit_code, err, store, csv, conn, cursor, pos,
                   out, ledger_rows, report>>

\* main() lines 149-154: `if args.<p>_csv: provider_sums.update(loaded)`;
\* an exception in the loader ends main().
LoadStep(file, loaded, at, next) ==
    /\ IF file.given /\ loaded.exc # ""
       THEN Exit(1, Err(loaded.exc, at)) /\ UNCHANGED provider_sums
       ELSE /\ provider_sums' = IF file.given
                                THEN DictUpdate(provider_sums, loaded.sums)
                                ELSE provider_sums
            /\ pc' = next
            /\ UNCHANGED <<exit_code, err>>
    /\ UNCHANGED <<provVars, prog, store, csv, conn, cursor, pos, out,
                   ledger_rows, ledger_sums, report>>

\* main() lines 149-150.
RLoadOpenai ==
    /\ prog = "reconcile" /\ pc = "openai"
    /\ LoadStep(csv.openai, _load_openai_csv(csv.openai.rows), "openai", "anthropic")

\* main() lines 151-152.
RLoadAnthropic ==
    /\ prog = "reconcile" /\ pc = "anthropic"
    /\ LoadStep(csv.anthropic, _load_anthropic_csv(csv.anthropic.rows),
                "anthropic", "gemini")

\* main() lines 153-154.
RLoadGemini ==
    /\ prog = "reconcile" /\ pc = "gemini"
    /\ LoadStep(csv.gemini, _load_gemini_csv(csv.gemini.rows), "gemini", "report")

\* main() lines 156-169: print the report and return 0.
RReport ==
    /\ prog = "reconcile" /\ pc = "report"
    /\ report' = ReportRows(ledger_sums, provider_sums)
    /\ Exit(0, NoErr)
    /\ UNCHANGED <<provVars, prog, store, csv, conn, cursor, pos, out,
                   ledger_rows, ledger_sums, provider_sums>>

\* ------------------------------------------------------ reconcile inputs
\* Sequences over S of length at most n.
BSeq(S, n) == UNION {[1..m -> S] : m \in 0..n}

\* meta_json shapes: absent, not text, unparsable, not an object, lacking
\* each level of billing_breakdown.totals.realized_microcents, and present
\* with an integer, a numeral text, another text, a float.
MetaShapes ==
    {MetaNull, MetaBlob, MetaText(JInvalid), MetaText(JList(1)),
     MetaText(JObj(JNone)), MetaText(JObj(JInt(5))),
     MetaText(JObj(JObj(JNone))), MetaText(JObj(JObj(JObj(JNone)))),
     MetaWith(JInt(3)), MetaWith(JStr("2")), MetaWith(JStr("abc")),
     MetaWith(JFloat(1))}

\* Ledger rows that vary the metadata (and a NULL realized_cents).
MetaRows ==
    {DbRow("openai", "m1", JInt(7), m) : m \in MetaShapes}
        \cup {DbRow("openai", "m1", JNone, MetaWith(JInt(3)))}

\* Ledger rows that vary the key.
KeyRows ==
    {DbRow(p, m, JInt(7), MetaWith(JInt(n))) :
        p \in {"openai", "OpenAI", "anthropic"}, m \in {"m1", "m10"}, n \in {1, 2}}

\* CSV rows that vary the cost text.
CostRows ==
    {CsvRow(m, c) : m \in {"", "m1", " m1", "m2"},
                    c \in {"", "abc", "5e-09", "1.5e-08", "2.5e-08"}}

\* CSV files that vary the key.
KeyFiles ==
    {NoFile, File(<<CsvRow("m1", "1e-08")>>), File(<<CsvRow("m1", "2.75e-08")>>),
     File(<<CsvRow("m2", "2.75e-08"), CsvRow("m10", "1e-08")>>)}

ReconStart ==
    /\ prog = "reconcile"
    /\ pc = "connect"
    /\ exit_code = -1
    /\ err = NoErr
    /\ conn = "none"
    /\ cursor = <<>>
    /\ pos = 1
    /\ out = <<>>
    /\ ledger_rows = <<>>
    /\ ledger_sums = EmptyDict
    /\ provider_sums = EmptyDict
    /\ report = <<>>
    /\ ProvIdle

\* The ledger varies; no CSV is given.
InitLedger ==
    /\ ReconStart
    /\ \/ store \in [status : {"ok"}, rows : BSeq(MetaRows, MaxLedgerRows)]
       \/ store \in [status : {"unopenable", "query_error"}, rows : {<<>>}]
    /\ csv = [openai |-> NoFile, anthropic |-> NoFile, gemini |-> NoFile]

\* One provider's CSV varies; the ledger is empty.
InitCsv ==
    /\ ReconStart
    /\ store = [status |-> "ok", rows |-> <<>>]
    /\ \E f \in {File(rows) : rows \in BSeq(CostRows, MaxCsvRows)} :
        csv \in {[openai |-> f, anthropic |-> NoFile, gemini |-> NoFile],
                 [openai |-> NoFile, anthropic |-> f, gemini |-> NoFile],
                 [openai |-> NoFile, anthropic |-> NoFile, gemini |-> f]}

\* Ledger keys and provider keys vary together.
InitJoin ==
    /\ ReconStart
    /\ store \in [status : {"ok"}, rows : BSeq(KeyRows, MaxLedgerRows)]
    /\ csv \in [openai : KeyFiles, anthropic : KeyFiles, gemini : KeyFiles]

InitRecon == InitLedger \/ InitCsv \/ InitJoin

NextRecon ==
    \/ RConnect
    \/ RQuery
    \/ RRow
    \/ RReturn
    \/ RSum
    \/ RLoadOpenai
    \/ RLoadAnthropic
    \/ RLoadGemini
    \/ RReport

SpecRecon == InitRecon /\ [][NextRecon]_vars

ProvInit(p) ==
    /\ prog = p
    /\ cli \in CommandLines(p)
    /\ pc = "parse"
    /\ args = NoArgs
    /\ topup = 0
    /\ agent_id = NoVal
    /\ run = Resp("none", NoVal)
    /\ run_id = NoVal
    /\ i = 0
    /\ sent = <<>>
    /\ got = <<>>
    /\ events = <<>>
    /\ exit_code = -1
    /\ err = NoErr
    /\ ReconIdle

Init ==
    \E p \in {"bootstrap", "traffic"} : ProvInit(p)

Next ==
    \/ BParseArgs
    \/ BHealth
    \/ BCreateAgent
    \/ BSetBudget
    \/ BCreateRun
    \/ BOutput
    \/ TParseArgs
    \/ TValidate
    \/ TStart
    \/ TCreateAgent
    \/ TSetBudget
    \/ TCreateRun
    \/ TMetered
    \/ TFinish


Spec == Init /\ [][Next]_vars

\* ====================================================================
\* Properties
\* ====================================================================
\* A response that carries a non-empty identifier in the field read.
HasId(r) ==
    /\ r.kind = "object"
    /\ \/ r.val.t = "str" /\ r.val.s # ""
       \/ r.val.t = "int" /\ r.val.n # 0

\* A call that returned: a 2xx response whose body could be read.
Returned(r) == r.kind \in {"empty", "nonobject", "object"}

\* C1: the budget endpoint is never called before an agent-creation
\* response with a non-empty agent_id was received (and is addressed to that
\* agent), and the run endpoint is never called before a budget call
\* returned successfully.
C1_ProvisioningOrder ==
    \A j \in 1..Len(sent) :
        /\ sent[j].ep = "budget" =>
             \E h \in 1..(j - 1) :
                 sent[h].ep = "agents" /\ HasId(got[h]) /\ sent[j].agent = got[h].val
        /\ sent[j].ep = "runs" =>
             \E h \in 1..(j - 1) : sent[h].ep = "budget" /\ Returned(got[h])

\* C1 witness: a run was requested after the agent and budget calls.
C1_Witness ==
    /\ Len(sent) >= 3
    /\ sent[1].ep = "agents" /\ sent[2].ep = "budget" /\ sent[3].ep = "runs"

\* C2: a /health response whose status is not the literal "ok" (a missing
\* status included) ends the workflow in failure with no request after it.
C2_UnhealthyAborts ==
    \A j \in 1..Len(sent) :
        (sent[j].ep = "health"
            /\ ~(got[j].kind = "object" /\ got[j].val = StrVal("ok")))
        => /\ pc = "failed"
           /\ exit_code = 1
           /\ Len(sent) = j
           /\ \A h \in 1..Len(sent) : sent[h].method # "POST"

\* C2 witness: /health answered {status: "degraded"} and the run has failed.
C2_Witness ==
    /\ Len(sent) = 1
    /\ sent[1].ep = "health"
    /\ got[1] = Resp("object", StrVal("degraded"))
    /\ pc = "failed"

\* A hard limit <= 0 (either script) or a request count <= 0 (traffic).
InvalidArguments ==
    \/ prog \in {"bootstrap", "traffic"} /\ cli.limit.given /\ cli.limit.isint
         /\ cli.limit.n <= 0
    \/ prog = "traffic" /\ cli.n.given /\ cli.n.isint /\ cli.n.n <= 0

\* C3: with a hard limit <= 0 or a request count <= 0 the program issues no
\* HTTP request and, once past argument handling, has ended in failure.
C3_InvalidArgsNoRequest ==
    InvalidArguments =>
        /\ sent = <<>>
        /\ pc \in {"parse", "validate", "failed"}
        /\ exit_code \in {-1, 1, 2}
        /\ pc = "failed" => err.at \in {"parse", "validate"}

\* C3 witness: the traffic generator rejected --hard-limit-cents 0.
C3_Witness ==
    /\ prog = "traffic"
    /\ cli.limit = OptInt(0) /\ cli.n = OptInt(1)
    /\ pc = "failed" /\ err = Err("SystemExit", "validate")
    /\ sent = <<>>

\* A step failed: transport error, non-2xx, unhealthy status, or a response
\* without the identifier the step exists to obtain.
StepFailed(j) ==
    \/ got[j].kind \in {"urlerror", "timeout", "httperror", "badjson"}
    \/ sent[j].ep = "health" /\ ~(got[j].kind = "object" /\ got[j].val = StrVal("ok"))
    \/ sent[j].ep \in {"agents", "runs"} /\ ~HasId(got[j])

\* C4: once a step fails no further request is issued (so nothing is
\* retried or rolled back) and the process does not end in success; when it
\* has ended, the error reported is that step's.
C4_FailFast ==
    \A j \in 1..Len(sent) :
        StepFailed(j) =>
            /\ j = Len(sent)
            /\ exit_code # 0
            /\ exit_code # -1 => err.at = sent[j].ep

\* C5: the workflow ends in success only if every run response carried a
\* non-empty run identifier.
C5_RunIdRequired ==
    exit_code = 0 =>
        \A j \in 1..Len(sent) : sent[j].ep = "runs" => HasId(got[j])

RECURSIVE SumAt(_, _)
\* The sum of vals[j] over the indices j in idx.
SumAt(vals, idx) ==
    IF idx = {} THEN 0
    ELSE LET j == CHOOSE x \in idx : TRUE
         IN  vals[j] + SumAt(vals, idx \ {j})

ReportKey(j) == <<report[j].provider, report[j].model>>

ReportDone == prog = "reconcile" /\ pc = "done"

\* C6: the report has exactly one row per key of the union of the ledger
\* sums and the provider sums, in ascending (provider, model) order; with
\* both empty it is empty and the run still succeeds.
C6_KeyUnionSorted ==
    ReportDone =>
        LET K == DOMAIN ledger_sums \cup DOMAIN provider_sums
        IN  /\ {ReportKey(j) : j \in 1..Len(report)} = K
            /\ Len(report) = Cardinality(K)
            /\ \A a, b \in 1..Len(report) :
                 a < b => KeyLess(ReportKey(a), ReportKey(b))
            /\ exit_code = 0

\* C6 witness: a report of three or more rows with a ledger-only key, a
\* provider-only key and two keys that differ in the model alone.
C6_Witness ==
    /\ ReportDone
    /\ Len(report) >= 3
    /\ DOMAIN ledger_sums \ DOMAIN provider_sums # {}
    /\ DOMAIN provider_sums \ DOMAIN ledger_sums # {}
    /\ \E a \in 1..(Len(report) - 1) :
         report[a].provider = report[a + 1].provider
           /\ report[a].model = "m10" /\ report[a + 1].model = "m2"

\* C7: each report row's ledger amount is the sum of realized_microcents
\* over the ledger rows with that key, its provider amount is the provider
\* sum for the key (0 when absent), and its diff is their difference.
C7_RowAmounts ==
    ReportDone =>
        \A j \in 1..Len(report) :
            LET key == ReportKey(j)
                micro == [x \in 1..Len(ledger_rows) |->
                             ledger_rows[x].realized_microcents]
                mine == {x \in 1..Len(ledger_rows) :
                            <<ledger_rows[x].provider, ledger_rows[x].model>> = key}
            IN  /\ report[j].ledger = SumAt(micro, mine)
                /\ report[j].provider_amount =
                     (IF key \in DOMAIN provider_sums THEN provider_sums[key] ELSE 0)
                /\ report[j].diff = report[j].ledger - report[j].provider_amount

\* C7 witness: one key with two ledger rows and no provider figure, and one
\* key known to the provider only.
C7_Witness ==
    /\ ReportDone
    /\ \E j \in 1..Len(report) :
         /\ ReportKey(j) \notin DOMAIN provider_sums
         /\ Len(ledger_rows) = 2
         /\ report[j].ledger = 3 /\ report[j].diff = 3
    /\ \E j \in 1..Len(report) :
         /\ ReportKey(j) \notin DOMAIN ledger_sums
         /\ report[j].provider_amount = 3 /\ report[j].diff = -3

Providers == {"openai", "anthropic", "gemini"}

\* The rows of a CSV that the adapters count: model and cost both non-empty
\* after stripping.
Counted(rows) ==
    {j \in 1..Len(rows) : Strip(rows[j].model) # "" /\ Strip(rows[j].cost) # ""}

\* C8: after the imports, for every given provider CSV and every model, the
\* imported value is the sum, row by row, of usd_to_microcents(cost) over the
\* rows with that model; a model with no such row has no entry.
C8_AggregationAdditivity ==
    (prog = "reconcile" /\ pc \in {"report", "done"}) =>
        \A p \in Providers :
            csv[p].given =>
                LET rows == csv[p].rows
                    each == [j \in 1..Len(rows) |->
                                _usd_to_microcents(PyFloat(Strip(rows[j].cost)).q)]
                IN  \A m \in {Strip(rows[j].model) : j \in Counted(rows)} \cup {"m1", "m2"} :
                        LET mine == {j \in Counted(rows) : Strip(rows[j].model) = m}
                        IN  IF mine = {}
                            THEN <<p, m>> \notin DOMAIN provider_sums
                            ELSE /\ <<p, m>> \in DOMAIN provider_sums
                                 /\ provider_sums[<<p, m>>] = SumAt(each, mine)

\* C8 witness: two rows of one model (one written with a leading blank)
\* whose costs 0.5 and 2.5 microcents convert to 0 and 2: the sum is 2, not
\* the 3 that converting their total would give.
C8_Witness ==
    /\ ReportDone
    /\ csv.anthropic = File(<<CsvRow(" m1", "5e-09"), CsvRow("m1", "2.5e-08")>>)
    /\ provider_sums[<<"anthropic", "m1">>] = 2

\* The metadata holds billing_breakdown.totals.realized_microcents.
HasMicrocents(col) ==
    /\ col.sql = "text"
    /\ col.loads.t = "obj"
    /\ col.loads.child.t = "obj"
    /\ col.loads.child.child.t = "obj"
    /\ col.loads.child.child.child.t # "none"

\* Row j of the batch came back as ledger row `r` with the value its
\* metadata gives: 0 without the nested field, n for an integer n.
RowKept(j, r) ==
    LET col == store.rows[j].meta_json
    IN  /\ r.provider = store.rows[j].provider
        /\ r.model = store.rows[j].model
        /\ ~HasMicrocents(col) => r.realized_microcents = 0
        /\ (HasMicrocents(col) /\ col.loads.child.child.child.t = "int") =>
             r.realized_microcents = col.loads.child.child.child.n

\* C9: a row whose meta_json is absent, unparsable, not an object or lacks
\* the nested field comes back with realized_microcents = 0; extraction
\* never raises because of metadata; every row of the batch is returned.
C9_MalformedMetaTolerated ==
    prog = "reconcile" =>
        /\ \A j \in 1..Len(out) : RowKept(j, out[j])
        /\ pc \in {"sum", "openai", "anthropic", "gemini", "report", "done"} =>
             /\ Len(ledger_rows) = Len(store.rows)
             /\ \A j \in 1..Len(ledger_rows) : RowKept(j, ledger_rows[j])
        /\ (pc = "failed" /\ err.at = "rows") =>
             store.rows[pos].realized_cents.t # "int"

\* C9 witness: a batch of an unparsable row and a good row, both returned.
C9_Witness ==
    /\ ReportDone
    /\ Len(store.rows) = 2
    /\ store.rows[1].meta_json = MetaText(JInvalid)
    /\ store.rows[2].meta_json = MetaWith(JInt(3))
    /\ Len(ledger_rows) = 2
    /\ ledger_rows[1].realized_microcents = 0
    /\ ledger_rows[2].realized_microcents = 3

\* A counted CSV row whose cost float() rejects.
MalformedCsvRow(p) ==
    \E j \in Counted(csv[p].rows) : ~PyFloat(Strip(csv[p].rows[j].cost)).ok

\* C10: a malformed row in a provider CSV does not abort the run: the
\* program never ends in failure at the import of that file.
C10_MalformedCsvNonFatal ==
    \A p \in Providers :
        (prog = "reconcile" /\ csv[p].given /\ MalformedCsvRow(p)) =>
            ~(pc = "failed" /\ err.at = p)

\* The requests to one endpoint, as indices of sent.
Calls(ep) == {j \in 1..Len(sent) : sent[j].ep = ep}

\* The index in sent of the k-th request to an endpoint.
KthCall(ep, k) ==
    CHOOSE j \in Calls(ep) : Cardinality({h \in Calls(ep) : h < j}) = k - 1

TrafficDone == prog = "traffic" /\ pc = "done"

\* C11 (as stated): in one traffic-generator invocation exactly one run is
\* created, however many metered requests are issued, and every metered
\* request targets that run.
C11_OneRun ==
    prog = "traffic" =>
        /\ Cardinality(Calls("runs")) <= 1
        /\ \A j \in Calls("responses") :
             sent[j].run = got[KthCall("runs", 1)].val

\* C11 (amended): every metered request is issued under a run of its own:
\* the k-th metered request follows the k-th run creation and targets the
\* run_id that creation returned, and a run that issued all N metered
\* requests created N runs.
C11_RunPerRequest ==
    prog = "traffic" =>
        /\ \A k \in 1..Cardinality(Calls("responses")) :
             /\ k <= Cardinality(Calls("runs"))
             /\ KthCall("runs", k) < KthCall("responses", k)
             /\ HasId(got[KthCall("runs", k)])
             /\ sent[KthCall("responses", k)].run = got[KthCall("runs", k)].val
        /\ pc = "done" =>
             /\ Cardinality(Calls("runs")) = args.n
             /\ Cardinality(Calls("responses")) = args.n

\* C11 witness: two metered requests sent under two different runs.
C11_Witness ==
    /\ TrafficDone
    /\ args.n = 2
    /\ Cardinality(Calls("responses")) = 2
    /\ sent[KthCall("responses", 1)].run = StrVal("r1")
    /\ sent[KthCall("responses", 2)].run = StrVal("r2")

\* Positions in events of one kind of event.
EventsOf(kind) == {e \in 1..Len(events) : events[e] = kind}

\* The request (index of sent) that the "req" event at position e stands for.
ReqOf(e) == Cardinality({x \in 1..e : events[x] = "req"})

\* Event e is a metered request and its response.
IsMetered(e) ==
    /\ e \in 1..Len(events)
    /\ events[e] = "req"
    /\ sent[ReqOf(e)].ep = "responses"

\* C12 (as stated): the window start is recorded immediately before the
\* first metered request and the window end immediately after the last one:
\* no network call and no delay lies between the start and the first metered
\* request, nor between the last metered response and the end.
C12_WindowTight ==
    prog = "traffic" =>
        /\ \A e \in EventsOf("start") : e < Len(events) => IsMetered(e + 1)
        /\ \A e \in EventsOf("end") : IsMetered(e - 1)

\* C12 (amended): the window start is recorded once, before agent creation,
\* which is the first network call, so that provisioning lies inside the
\* window; the window end is recorded once, after the response to the last
\* request issued, which is a metered one, with no network call in between
\* and no delay but the fixed delay that follows every metered request when
\* it is configured positive.
C12_WindowAroundProvisioning ==
    prog = "traffic" =>
        /\ events # <<>> => EventsOf("start") = {1}
        /\ Len(events) >= 2 => events[2] = "req" /\ sent[1].ep = "agents"
        /\ Cardinality(EventsOf("end")) <= 1
        /\ \A e \in EventsOf("end") :
             LET last == IF cli.sleep_positive THEN e - 2 ELSE e - 1
             IN  /\ IsMetered(last)
                 /\ ReqOf(last) = Len(sent)
                 /\ cli.sleep_positive => events[e - 1] = "sleep"

\* C12 witness: two metered requests with a positive delay; the window
\* opens before agent creation and closes after the second delay.
C12_Witness ==
    /\ TrafficDone
    /\ events = <<"start", "req", "req", "req", "req", "sleep", "req", "req",
                  "sleep", "end", "print">>
    /\ sent[1].ep = "agents"

\* The command line names a top-up of at most k cents.
TopupAtMost(k) == cli.topup.given /\ cli.topup.isint /\ cli.topup.n <= k

\* C13 (as stated): every budget request of either script carries a
\* strictly positive hard_limit_cents and a strictly positive topup_cents,
\* and an invocation whose top-up is zero or negative never reaches the
\* budget endpoint.
C13_PositiveBudgetFigures ==
    prog \in {"bootstrap", "traffic"} =>
        /\ \A j \in Calls("budget") :
             sent[j].hard_limit_cents > 0 /\ sent[j].topup_cents > 0
        /\ TopupAtMost(0) => Calls("budget") = {}

\* C13 (amended): every budget request carries a strictly positive
\* hard_limit_cents and a topup_cents that is strictly positive in the
\* bootstrap script and zero or more in the traffic generator; a negative
\* top-up (and a zero top-up in the bootstrap script) is rejected before any
\* request is issued.
C13_BudgetFiguresValidated ==
    /\ \A j \in Calls("budget") :
         /\ sent[j].hard_limit_cents > 0
         /\ prog = "bootstrap" => sent[j].topup_cents > 0
         /\ prog = "traffic" => sent[j].topup_cents >= 0
    /\ (prog = "bootstrap" /\ TopupAtMost(0)) => sent = <<>>
    /\ (prog = "traffic" /\ TopupAtMost(-1)) => sent = <<>>

\* C13 witness: the traffic generator sent a budget request with a positive
\* hard limit and a top-up of zero.
C13_Witness ==
    /\ prog = "traffic"
    /\ cli.topup = OptInt(0)
    /\ \E j \in Calls("budget") :
         sent[j].topup_cents = 0 /\ sent[j].hard_limit_cents > 0

\* C14 (as stated): when no top-up is given on the command line, the budget
\* request of either script carries topup_cents equal to its
\* hard_limit_cents.
C14_TopupDefaultsToLimit ==
    (prog \in {"bootstrap", "traffic"} /\ ~cli.topup.given) =>
        \A j \in Calls("budget") : sent[j].topup_cents = sent[j].hard_limit_cents

\* C14 (amended): when no top-up is given, the budget request of the
\* bootstrap script carries topup_cents equal to its hard_limit_cents, for
\* every hard limit; that of the traffic generator carries the fixed default
\* top-up of 500 cents, whatever the hard limit.
C14_TopupDefault ==
    ~cli.topup.given =>
        \A j \in Calls("budget") :
            /\ prog = "bootstrap" =>
                 /\ sent[j].hard_limit_cents = cli.limit.n
                 /\ sent[j].topup_cents = sent[j].hard_limit_cents
            /\ prog = "traffic" =>
                 /\ sent[j].hard_limit_cents = OptValue(cli.limit, DefaultHardLimitCents)
                 /\ sent[j].topup_cents = DefaultTopupCents

\* C14 witness: the bootstrap script, given --limit 2 and no --topup, sent
\* a budget request with topup_cents 2.
C14_Witness ==
    /\ prog = "bootstrap"
    /\ ~cli.topup.given /\ cli.limit = OptInt(2)
    /\ \E j \in Calls("budget") :
         sent[j].hard_limit_cents = 2 /\ sent[j].topup_cents = 2

\* The mapping the adapter of provider p returns for its CSV argument (the
\* empty mapping when the argument is not given).
AdapterOutput(p) ==
    IF ~csv[p].given THEN EmptyDict
    ELSE CASE p = "openai" -> _load_openai_csv(csv[p].rows).sums
           [] p = "anthropic" -> _load_anthropic_csv(csv[p].rows).sums
           [] p = "gemini" -> _load_gemini_csv(csv[p].rows).sums

\* All given provider CSVs have been imported and merged.
AdaptersLoaded == prog = "reconcile" /\ pc \in {"report", "done"}

RECURSIVE MergeIn(_, _)
\* The adapter outputs merged into d one after the other in the given order.
MergeIn(order, d) ==
    IF order = <<>> THEN d
    ELSE MergeIn(Tail(order), DictUpdate(d, AdapterOutput(Head(order))))

\* The six orders in which the three adapters can be loaded.
LoadOrders ==
    {o \in [1..3 -> Providers] : \A a, b \in 1..3 : a # b => o[a] # o[b]}

\* C15: the merged provider mapping contains every (key, value) pair of
\* every adapter output unchanged and nothing else, and merging the outputs
\* in any of the six load orders gives that same mapping.
C15_MergeLossless ==
    AdaptersLoaded =>
        /\ \A p \in Providers :
             \A key \in DOMAIN AdapterOutput(p) :
                 /\ key \in DOMAIN provider_sums
                 /\ provider_sums[key] = AdapterOutput(p)[key]
        /\ DOMAIN provider_sums = UNION {DOMAIN AdapterOutput(p) : p \in Providers}
        /\ \A o \in LoadOrders : MergeIn(o, EmptyDict) = provider_sums

\* C15 witness: three adapters loaded, two of them with the same model at
\* different amounts; both entries are in the merged mapping.
C15_Witness ==
    /\ ReportDone
    /\ csv.gemini.given
    /\ <<"openai", "m1">> \in DOMAIN provider_sums
    /\ <<"anthropic", "m1">> \in DOMAIN provider_sums
    /\ provider_sums[<<"openai", "m1">>] = 1
    /\ provider_sums[<<"anthropic", "m1">>] = 3

\* Nearest integer with ties away from zero, of the amount at place q of the
\* quarter-microcent grid.
RoundHalfAwayFromZero(q) ==
    LET a == IF q < 0 THEN -q ELSE q
        m == (a \div 4) + (IF a % 4 >= 2 THEN 1 ELSE 0)
    IN  IF q < 0 THEN -m ELSE m

\* C16: every adapter converts each cost to the nearest integer number of
\* microcents with ties rounded away from zero (k + 1/2 becomes k + 1 for
\* even and odd k alike), so the imported value of a key is the sum of the
\* amounts so rounded.
C16_RoundHalfAway ==
    AdaptersLoaded =>
        \A p \in Providers :
            csv[p].given =>
                LET rows == csv[p].rows
                    each == [j \in 1..Len(rows) |->
                                RoundHalfAwayFromZero(PyFloat(Strip(rows[j].cost)).q)]
                IN  \A m \in {Strip(rows[j].model) : j \in Counted(rows)} :
                        provider_sums[<<p, m>>] =
                            SumAt(each, {j \in Counted(rows) : Strip(rows[j].model) = m})

\* Where the connection stands at each point of the reconciliation: not yet
\* opened before and at a failing connect, open while the query runs and the
\* rows are built, closed once the extraction call has returned or raised.
ConnScoped ==
    prog = "reconcile" =>
        /\ pc = "connect" => conn = "none"
        /\ (pc = "failed" /\ err.at = "connect") => conn = "none"
        /\ pc \in {"query", "rows"} => conn = "open"
        /\ (pc = "failed" /\ err.at \in {"query", "rows"}) => conn = "closed"
        /\ pc \in {"sum", "openai", "anthropic", "gemini", "report", "done"} =>
             conn = "closed"
        /\ (pc = "failed" /\ err.at \in Providers) => conn = "closed"

\* C17: on every exit path of the extraction call after the connection is
\* opened (normal return, failing query, failure while building a row) the
\* connection is closed; the query and the row loop run only while it is
\* open, and once closed it is never opened or used again.
C17_ConnectionScoped ==
    /\ []ConnScoped
    /\ [][conn = "closed" => conn' = "closed" /\ cursor' = cursor /\ out' = out]_vars

\* C17 witness: building a row failed (a NULL realized_cents) and the
\* connection was closed on the way out.
C17_Witness ==
    /\ prog = "reconcile"
    /\ pc = "failed" /\ err.at = "rows"
    /\ conn = "closed"

\* The traffic generator alone. main() is one sequential thread of blocking
\* calls, each of which returns or raises (the HTTP calls within their
\* 60-second timeout), so it keeps taking steps until it ends.
InitTraffic == ProvInit("traffic")

NextTraffic ==
    \/ TParseArgs
    \/ TValidate
    \/ TStart
    \/ TCreateAgent
    \/ TSetBudget
    \/ TCreateRun
    \/ TMetered
    \/ TFinish

SpecTraffic == InitTraffic /\ [][NextTraffic]_vars /\ WF_vars(NextTraffic)

\* The command line passes argparse and the checks of main(): a request
\* count N > 0 and valid other options.
ValidCommandLine ==
    /\ cli.n.isint /\ (cli.n.given => cli.n.n > 0)
    /\ cli.max_output_tokens.isint
    /\ cli.max_output_tokens.given => cli.max_output_tokens.n > 0
    /\ cli.limit.isint /\ (cli.limit.given => cli.limit.n > 0)
    /\ cli.topup.isint /\ (cli.topup.given => cli.topup.n >= 0)

\* Every remote call made so far succeeded: a 2xx response that could be
\* read, carrying the identifier where one is expected.
AllCallsSucceeded ==
    \A j \in 1..Len(sent) :
        IF sent[j].ep \in {"agents", "runs"} THEN HasId(got[j]) ELSE Returned(got[j])

\* The run ended in success having issued one agent creation, then one
\* budget call, then N metered requests whose prompts carry 1, 2, ..., N in
\* that order.
SuccessSequence ==
    LET N == OptValue(cli.n, DefaultN)
    IN  /\ TrafficDone /\ exit_code = 0
        /\ Calls("agents") = {1}
        /\ Calls("budget") = {2}
        /\ Cardinality(Calls("responses")) = N
        /\ \A k \in 1..N : sent[KthCall("responses", k)].seq = k
        /\ \A j \in Calls("responses") : sent[j].agent = got[1].val

\* C18: for every request count N > 0 (and an otherwise valid command
\* line), if every remote call succeeds the traffic generator eventually
\* terminates successfully having issued exactly one agent creation, then
\* exactly one budget call, then exactly N metered requests numbered
\* 1, 2, ..., N in that order.
C18_SuccessfulRun ==
    (ValidCommandLine /\ []AllCallsSucceeded) => <>SuccessSequence

\* C18 witness: a run with --n 2 ended in success after the metered
\* requests numbered 1 and 2.
C18_Witness ==
    /\ TrafficDone
    /\ cli.n = OptInt(2)
    /\ AllCallsSucceeded
    /\ Cardinality(Calls("responses")) = 2
    /\ sent[KthCall("responses", 1)].seq = 1
    /\ sent[KthCall("responses", 2)].seq = 2

\* The run creations that returned a non-empty run_id.
RunsCreated == {h \in Calls("runs") : HasId(got[h])}

\* C19: in the traffic generator every metered request follows a run
\* creation that returned a non-empty run_id with no other run creation or
\* metered request in between, is addressed to that run_id and to the
\* agent_id agent creation returned; the number of runs created exceeds the
\* number of metered requests issued by 0 or 1 in every reachable state.
C19_RunBeforeMetered ==
    prog = "traffic" =>
        /\ \A j \in Calls("responses") :
             /\ \E h \in 1..(j - 1) :
                  /\ sent[h].ep = "runs"
                  /\ HasId(got[h])
                  /\ \A x \in (h + 1)..(j - 1) : sent[x].ep \notin {"runs", "responses"}
                  /\ sent[j].run = got[h].val
             /\ \E a \in Calls("agents") :
                  a < j /\ HasId(got[a]) /\ sent[j].agent = got[a].val
        /\ Cardinality(RunsCreated) - Cardinality(Calls("responses")) \in {0, 1}

\* C19 witness: after one metered request a second run has been created
\* and its metered request is still to come.
C19_Witness ==
    /\ prog = "traffic" /\ pc = "metered"
    /\ Cardinality(Calls("responses")) = 1
    /\ Cardinality(RunsCreated) = 2

\* The metered requests that were answered with a readable 2xx response.
MeteredSucceeded == {j \in Calls("responses") : Returned(got[j])}

\* C20: the window start is recorded before any HTTP request, the window
\* end after the response to the last metered request and after every other
\* request, and the window is printed only after the end was recorded and
\* all N metered requests succeeded; a run that fails prints no window.
C20_WindowBracketsTraffic ==
    prog = "traffic" =>
        /\ \A e \in EventsOf("req") : \E s \in EventsOf("start") : s < e
        /\ \A e \in EventsOf("end") :
             /\ \A r \in EventsOf("req") : r < e
             /\ sent # <<>>
             /\ sent[Len(sent)].ep = "responses"
             /\ Returned(got[Len(sent)])
        /\ \A e \in EventsOf("print") :
             /\ \E d \in EventsOf("end") : d < e
             /\ Cardinality(Calls("responses")) = args.n
             /\ MeteredSucceeded = Calls("responses")
             /\ exit_code = 0
        /\ pc = "failed" => EventsOf("print") = {}

\* C20 witness: a run of two metered requests printed its window.
C20_Witness ==
    /\ TrafficDone
    /\ args.n = 2
    /\ Cardinality(MeteredSucceeded) = 2
    /\ EventsOf("print") # {}
    /\ events[1] = "start"

====
